---- MODULE Spec2Model ----
(***************************************************************************)
(* PPT Generator: the combined HTTP server (request routing, the           *)
(* generation subprocess and its close handler, the output and static      *)
(* file routes) and the standalone preview server, as a state machine.     *)
(*                                                                         *)
(* A file or path-segment name is a record [pre, id, ext]: the text up to  *)
(* the generated identifier, the identifier (0: none) and the extension.   *)
(* A path is a sequence of names; a URL path "/a/b" is <<a, b>> and a      *)
(* trailing slash is a last segment with the empty name.                   *)
(***************************************************************************)
EXTENDS Integers, Sequences, FiniteSets, TLC

\* ------------------------------------------------------------------ bounds
\* Date.now() takes the values 1..MaxClock.
MaxClock == 2
\* Math.random() yields one of RandSpace suffixes, 0..RandSpace-1.
RandSpace == 1
\* Chunks the subprocess writes to its standard error.
MaxChunks == 1

\* ------------------------------------------------------------------- names
Seg(s) == [pre |-> s, id |-> 0, ext |-> ""]
File(s, e) == [pre |-> s, id |-> 0, ext |-> e]
EmptySeg == Seg("")

Pop(p) == IF p = <<>> THEN <<>> ELSE SubSeq(p, 1, Len(p) - 1)

\* spawn's --output argument: `presentation_${generateId()}.html`
PresentationName(id) == [pre |-> "presentation_", id |-> id, ext |-> ".html"]

\* Date.now().toString(36) + Math.random().toString(36).substr(2, 9): the
\* time digits followed by the random digits, read as one number, so that the
\* order of the numbers is the order of the strings.
generateId(t, r) == t * RandSpace + r

\* ------------------------------------------------------------- directories
DIRNAME == <<Seg("srv")>>
FRONTEND_DIR == DIRNAME \o <<Seg("frontend"), Seg("public")>>
OUTPUT_DIR == DIRNAME \o <<Seg("output")>>
PREVIEW_DIRNAME == DIRNAME \o <<Seg("frontend")>>
PREVIEW_OUTPUT_DIR == Pop(PREVIEW_DIRNAME) \o <<Seg("output")>>

\* path.join: the segments concatenated and normalised ("" and "." dropped,
\* ".." removing the segment before it; nothing is percent-decoded).
RECURSIVE PathNormalize(_, _)
PathNormalize(p, acc) ==
  IF p = <<>> THEN acc
  ELSE LET s == Head(p) IN
       IF s = EmptySeg \/ s = Seg(".") THEN PathNormalize(Tail(p), acc)
       ELSE IF s = Seg("..") THEN PathNormalize(Tail(p), Pop(acc))
       ELSE PathNormalize(Tail(p), acc \o <<s>>)

PathJoin(dir, p) == PathNormalize(dir \o p, <<>>)

\* path.basename: the last segment, trailing slashes ignored.
RECURSIVE PathBasename(_)
PathBasename(p) ==
  IF p = <<>> THEN EmptySeg
  ELSE IF p[Len(p)] = EmptySeg THEN PathBasename(Pop(p))
  ELSE p[Len(p)]

\* path.extname(...).toLowerCase()
ToLowerCase(e) == IF e = ".HTML" THEN ".html" ELSE e
PathExtname(name) == ToLowerCase(name.ext)

\* new URL(req.url, base).pathname: dot segments are removed by the URL
\* parser, percent-encoded dots included; a dot segment in last place leaves
\* a trailing slash.
IsDoubleDot(s) == s \in {Seg(".."), Seg("%2e%2e"), Seg(".%2e"), Seg("%2e.")}
IsSingleDot(s) == s \in {Seg("."), Seg("%2e")}

RECURSIVE UrlPathname(_, _)
UrlPathname(raw, acc) ==
  IF raw = <<>> THEN acc
  ELSE LET s == Head(raw)
           last == Len(raw) = 1
       IN  IF IsDoubleDot(s)
           THEN UrlPathname(Tail(raw), IF last THEN Pop(acc) \o <<EmptySeg>> ELSE Pop(acc))
           ELSE IF IsSingleDot(s)
           THEN UrlPathname(Tail(raw), IF last THEN acc \o <<EmptySeg>> ELSE acc)
           ELSE UrlPathname(Tail(raw), acc \o <<s>>)

Pathname(url) == UrlPathname(url, <<>>)

StartsWithOutput(p) == Len(p) >= 2 /\ p[1] = Seg("output")

VARIABLES
  now,        \* the clock Date.now() reads
  outputDir,  \* the output directory: file name |-> the writer of its bytes
  gens,       \* the generation request of each connection
  last,       \* the exchange answered last by a branch that does not wait
  earlier,    \* an exchange of a catalog route answered before, as remembered
  newest,     \* the presentation file created last, as recorded
  app         \* the form wizard in a browser

vars == <<now, outputDir, gens, last, earlier, newest, app>>

\* -------------------------------------------------------------- file system
\* Regular files that exist beside the output directory: the front end's
\* index document and script, the two servers' own sources, and a file
\* outside the installation.
StaticFiles ==
  { FRONTEND_DIR \o <<File("index", ".html")>>,
    FRONTEND_DIR \o <<File("app", ".js")>>,
    FRONTEND_DIR \o <<Seg("assets"), File("notes", ".txt")>>,
    DIRNAME \o <<File("server", ".js")>>,
    PREVIEW_DIRNAME \o <<File("server", ".js")>>,
    <<Seg("etc"), Seg("passwd")>> }

InOutputDir(path) == Len(path) = Len(OUTPUT_DIR) + 1 /\ Pop(path) = OUTPUT_DIR

IsPrefix(p, q) == Len(p) <= Len(q) /\ SubSeq(q, 1, Len(p)) = p

\* fs.statSync(path).isFile()
IsFile(path) ==
  \/ path \in StaticFiles
  \/ InOutputDir(path) /\ path[Len(path)] \in DOMAIN outputDir

IsDirectory(path) ==
  \/ path = OUTPUT_DIR
  \/ \E f \in StaticFiles : Len(path) < Len(f) /\ IsPrefix(path, f)

\* fs.existsSync(path)
ExistsSync(path) == IsFile(path) \/ IsDirectory(path)

\* fs.readFileSync(path) of a regular file: the file and, for a generated
\* file, the process that wrote its bytes.
ReadFileSync(path) ==
  [file |-> path,
   version |-> IF InOutputDir(path) /\ path[Len(path)] \in DOMAIN outputDir
               THEN outputDir[path[Len(path)]] ELSE 0]

MIME_TYPES ==
  [e \in {".html", ".css", ".js", ".json", ".png", ".jpg", ".gif", ".svg",
          ".ico", ".woff", ".woff2"} |->
     CASE e = ".html" -> "text/html; charset=utf-8"
       [] e = ".css" -> "text/css"
       [] e = ".js" -> "application/javascript"
       [] e = ".json" -> "application/json"
       [] e = ".png" -> "image/png"
       [] e = ".jpg" -> "image/jpeg"
       [] e = ".gif" -> "image/gif"
       [] e = ".svg" -> "image/svg+xml"
       [] e = ".ico" -> "image/x-icon"
       [] e = ".woff" -> "font/woff"
       [] e = ".woff2" -> "font/woff2"]

MimeOr(ext, default) == IF ext \in DOMAIN MIME_TYPES THEN MIME_TYPES[ext] ELSE default

\* ---------------------------------------------------------------- responses
CorsHeaders ==
  [allowOrigin |-> "*", allowMethods |-> "GET, POST, OPTIONS", allowHeaders |-> "Content-Type"]

NoHeaders == [allowOrigin |-> "", allowMethods |-> "", allowHeaders |-> ""]

EmptyBody == [kind |-> "empty"]
JsonBody(v) == [kind |-> "json", value |-> v]
HtmlBody(t) == [kind |-> "html", text |-> t]
BytesBody(d) == [kind |-> "bytes", data |-> d]
\* The handler threw after writeHead: the response is never ended.
ThrewBody(e) == [kind |-> "threw", error |-> e]

Response(status, ctype, body) ==
  [status |-> status, headers |-> CorsHeaders, ctype |-> ctype, body |-> body]

\* The hard-coded landing page of the static fallback.
LandingPage == HtmlBody("PPT Generator")
NotFoundPage == HtmlBody("404 - file not found")

\* The catalogs, each entry by its id.
HealthJson == [status |-> "ok", message |-> "PPT Generator Server"]
TemplatesJson ==
  [templates |-> <<"modern-elegant", "corporate-blue", "minimal-clean", "creative-bold">>]
PresentationTypesJson ==
  [types |-> <<"business_presentation", "investor_pitch", "product_launch",
               "training_workshop", "webinar", "keynote", "sales_pitch">>]
AudiencesJson ==
  [audiences |-> <<"general_employees", "senior_executives", "investors", "clients",
                   "technical_team", "students">>]

ApiPath(name) == <<Seg("api"), Seg(name)>>
CatalogPaths ==
  {ApiPath("health"), ApiPath("templates"), ApiPath("presentation-types"), ApiPath("audiences")}
GeneratePath == ApiPath("generate")

\* ------------------------------------------------------------------ routing
Methods == {"GET", "POST", "OPTIONS", "PUT"}

\* As RouteOf, with the OPTIONS test placed after the catalog routes.
RouteOfOptionsAfterCatalog(method, pathname) ==
  IF pathname \in CatalogPaths THEN "catalog"
  ELSE IF method = "OPTIONS" THEN "options"
  ELSE IF pathname = GeneratePath /\ method = "POST" THEN "generate"
  ELSE IF StartsWithOutput(pathname) THEN "output"
  ELSE "static"

\* As RouteOf, with the generation route taken for every method.
RouteOfGenerateAnyMethod(method, pathname) ==
  IF method = "OPTIONS" THEN "options"
  ELSE IF pathname \in CatalogPaths THEN "catalog"
  ELSE IF pathname = GeneratePath THEN "generate"
  ELSE IF StartsWithOutput(pathname) THEN "output"
  ELSE "static"

\* The branch of handleRequest that answers a request, in the code's order.
RouteOf(method, pathname) ==
  IF method = "OPTIONS" THEN "options"
  ELSE IF pathname \in CatalogPaths THEN "catalog"
  ELSE IF pathname = GeneratePath /\ method = "POST" THEN "generate"
  ELSE IF StartsWithOutput(pathname) THEN "output"
  ELSE "static"

\* The branches of handleRequest whose condition a request meets, in the
\* code's order; the static fallback has no condition.
MatchingBranches(method, pathname) ==
  (IF method = "OPTIONS" THEN <<"options">> ELSE <<>>)
  \o (IF pathname \in CatalogPaths THEN <<"catalog">> ELSE <<>>)
  \o (IF pathname = GeneratePath /\ method = "POST" THEN <<"generate">> ELSE <<>>)
  \o (IF StartsWithOutput(pathname) THEN <<"output">> ELSE <<>>)
  \o <<"static">>

\* As BranchesRun, with no branch ending in return.
BranchesRunNoReturn(method, pathname) == MatchingBranches(method, pathname)

\* The branches that run and write a response: every branch ends in
\* return, so the first one met is the only one.
BranchesRun(method, pathname) == SubSeq(MatchingBranches(method, pathname), 1, 1)

\* As CatalogJson, with the health body counting the generated files.
CatalogJsonCounting(pathname) ==
  CASE pathname = ApiPath("health") ->
         [status |-> "ok", message |-> "PPT Generator Server",
          presentations |-> Cardinality(DOMAIN outputDir)]
    [] pathname = ApiPath("templates") -> TemplatesJson
    [] pathname = ApiPath("presentation-types") -> PresentationTypesJson
    [] pathname = ApiPath("audiences") -> AudiencesJson

CatalogJson(pathname) ==
  CASE pathname = ApiPath("health") -> HealthJson
    [] pathname = ApiPath("templates") -> TemplatesJson
    [] pathname = ApiPath("presentation-types") -> PresentationTypesJson
    [] pathname = ApiPath("audiences") -> AudiencesJson

\* /output/: path.join(OUTPUT_DIR, path.basename(pathname))
OutputFilePath(pathname) == PathJoin(OUTPUT_DIR, <<PathBasename(pathname)>>)

IndexHtml == File("index", ".html")

\* The static fallback's file path.
StaticFilePath(pathname) ==
  IF pathname = <<EmptySeg>> \/ pathname = <<IndexHtml>>
  THEN PathJoin(FRONTEND_DIR, <<IndexHtml>>)
  ELSE PathJoin(FRONTEND_DIR, pathname)

\* What a branch other than the generation route writes, the paths it hands
\* to fs.readFileSync (read) and those it hands to fs.existsSync and
\* fs.statSync (probed).
\* As OutputAnswer, with the static fallback's default content type.
OutputAnswerOctetStream(pathname) ==
  LET filePath == OutputFilePath(pathname)
      ext == PathExtname(PathBasename(pathname))
  IN  IF ExistsSync(filePath)
      THEN [resp |-> Response(200, MimeOr(ext, "application/octet-stream"),
                              IF IsFile(filePath) THEN BytesBody(ReadFileSync(filePath))
                              ELSE ThrewBody("EISDIR")),
            read |-> {filePath}, probed |-> {filePath}]
      ELSE [resp |-> Response(404, "text/html; charset=utf-8", NotFoundPage),
            read |-> {}, probed |-> {filePath}]

OutputAnswer(pathname) ==
  LET filePath == OutputFilePath(pathname)
      ext == PathExtname(PathBasename(pathname))
  IN  IF ExistsSync(filePath)
      THEN [resp |-> Response(200, MimeOr(ext, "text/html"),
                              IF IsFile(filePath) THEN BytesBody(ReadFileSync(filePath))
                              ELSE ThrewBody("EISDIR")),
            read |-> {filePath}, probed |-> {filePath}]
      ELSE [resp |-> Response(404, "text/html; charset=utf-8", NotFoundPage),
            read |-> {}, probed |-> {filePath}]

\* As StaticAnswer, without the test that the path is a regular file.
StaticAnswerAnyKind(pathname) ==
  LET filePath == StaticFilePath(pathname)
      ext == IF filePath = <<>> THEN "" ELSE PathExtname(filePath[Len(filePath)])
  IN  IF ExistsSync(filePath)
      THEN [resp |-> Response(200, MimeOr(ext, "application/octet-stream"),
                              IF IsFile(filePath) THEN BytesBody(ReadFileSync(filePath))
                              ELSE ThrewBody("EISDIR")),
            read |-> {filePath}, probed |-> {filePath}]
      ELSE [resp |-> Response(404, "text/html; charset=utf-8", LandingPage),
            read |-> {}, probed |-> {filePath}]

StaticAnswer(pathname) ==
  LET filePath == StaticFilePath(pathname)
      ext == IF filePath = <<>> THEN "" ELSE PathExtname(filePath[Len(filePath)])
  IN  IF ExistsSync(filePath) /\ IsFile(filePath)
      THEN [resp |-> Response(200, MimeOr(ext, "application/octet-stream"),
                              BytesBody(ReadFileSync(filePath))),
            read |-> {filePath}, probed |-> {filePath}]
      ELSE [resp |-> Response(404, "text/html; charset=utf-8", LandingPage),
            read |-> {}, probed |-> {filePath}]

Answer(route, pathname) ==
  CASE route = "options" -> [resp |-> Response(204, "", EmptyBody), read |-> {}, probed |-> {}]
    [] route = "catalog" ->
         [resp |-> Response(200, "application/json", JsonBody(CatalogJson(pathname))),
          read |-> {}, probed |-> {}]
    [] route = "output" -> OutputAnswer(pathname)
    [] route = "static" -> StaticAnswer(pathname)

\* A finished exchange: the request, the branch that answered it, the
\* response, the paths handed to fs, the processes spawned for it and the
\* number of responses written.
Exchange(server, method, url, route, answer) ==
  [server |-> server, method |-> method, url |-> url, route |-> route,
   resp |-> answer.resp, read |-> answer.read, probed |-> answer.probed,
   spawned |-> 0, answers |-> 1]

NoResponse == [status |-> 0, headers |-> NoHeaders, ctype |-> "", body |-> EmptyBody]

NoExchange ==
  [server |-> "none", method |-> "", url |-> <<>>, route |-> "",
   resp |-> NoResponse, read |-> {}, probed |-> {}, spawned |-> 0, answers |-> 0]

\* ------------------------------------------------------- the preview server
PREVIEW_MIME_TYPES ==
  [e \in {".html", ".css", ".js", ".json", ".png", ".jpg", ".gif", ".svg", ".ico"} |->
     IF e = ".html" THEN "text/html" ELSE MIME_TYPES[e]]

PreviewResponse(status, ctype, body) ==
  [status |-> status, headers |-> NoHeaders, ctype |-> ctype, body |-> body]

PreviewTemplatesJson == TemplatesJson
PreviewHealthJson == [status |-> "ok", message |-> "PPT Generator Server is running"]

\* req.url.startsWith('/api/'), req.url.startsWith('/output/')
UrlStartsWith(url, name) == Len(url) >= 2 /\ url[1] = Seg(name)

handleApiRequest(url) ==
  IF url = ApiPath("health")
  THEN PreviewResponse(200, "application/json", JsonBody(PreviewHealthJson))
  ELSE IF url = ApiPath("templates")
  THEN PreviewResponse(200, "application/json", JsonBody(PreviewTemplatesJson))
  ELSE PreviewResponse(404, "application/json", JsonBody([error |-> "API not found"]))

PreviewBuildDir == PREVIEW_DIRNAME \o <<Seg("build")>>
PreviewPublicDir == PREVIEW_DIRNAME \o <<Seg("public")>>

\* The static file path: under build, or under public when build is missing.
PreviewStaticPath(url) ==
  LET base == IF ExistsSync(PreviewBuildDir) THEN PreviewBuildDir ELSE PreviewPublicDir
  IN  IF url = <<EmptySeg>> THEN PathJoin(base, <<IndexHtml>>) ELSE PathJoin(base, url)

\* As PreviewOutputPath, with the rest of the URL joined as it is.
PreviewOutputPathJoinsUrl(url) == PathJoin(PREVIEW_OUTPUT_DIR, Tail(url))

\* path.join(OUTPUT_DIR, path.basename(req.url))
PreviewOutputPath(url) == PathJoin(PREVIEW_OUTPUT_DIR, <<PathBasename(url)>>)

PreviewFilePath(url) ==
  IF UrlStartsWith(url, "output") THEN PreviewOutputPath(url) ELSE PreviewStaticPath(url)

\* fs.readFile's error: none for a regular file, ENOENT when nothing is at
\* the path, another code (EISDIR, ENOTDIR) otherwise.
ReadFileError(path) ==
  IF IsFile(path) THEN "none"
  ELSE IF IsDirectory(path) THEN "EISDIR"
  ELSE IF \E k \in 1..Len(path) : IsFile(SubSeq(path, 1, k)) THEN "ENOTDIR"
  ELSE "ENOENT"

PreviewAnswer(url) ==
  IF UrlStartsWith(url, "api")
  THEN [resp |-> handleApiRequest(url), read |-> {}, probed |-> {}]
  ELSE LET filePath == PreviewFilePath(url)
           ext == IF filePath = <<>> THEN "" ELSE PathExtname(filePath[Len(filePath)])
           contentType == IF ext \in DOMAIN PREVIEW_MIME_TYPES
                          THEN PREVIEW_MIME_TYPES[ext] ELSE "application/octet-stream"
           err == ReadFileError(filePath)
       IN  [resp |-> IF err = "ENOENT"
                     THEN PreviewResponse(404, "text/html; charset=utf-8", NotFoundPage)
                     ELSE IF err # "none"
                     THEN PreviewResponse(500, "", HtmlBody("server error"))
                     ELSE PreviewResponse(200, contentType, BytesBody(ReadFileSync(filePath))),
            read |-> {filePath}, probed |-> {PreviewBuildDir}]

PreviewRoute(url) ==
  IF UrlStartsWith(url, "api") THEN "api"
  ELSE IF UrlStartsWith(url, "output") THEN "output" ELSE "static"

\* --------------------------------------------------------------- generation
\* A JSON value of the body: undefined (absent) or a string of characters.
Undefined == [t |-> "undefined", s |-> <<>>]
Str(s) == [t |-> "string", s |-> s]

Topics == {Undefined, Str(<<>>), Str(<<" ">>), Str(<<"Q", "4">>), Str(<<"A", "I">>)}

\* A JSON number of the body.
Num(n) == [t |-> "number", n |-> n]

\* The optional members of the body that generatePresentation reads.
NoOptions ==
  [type |-> Undefined, audience |-> Undefined, duration |-> Undefined,
   tone |-> Undefined, industry |-> Undefined]

OptionSets ==
  [type : {Undefined, Str(<<>>), Str(<<"training">>)},
   audience : {Undefined, Str(<<"executives">>)},
   duration : {Undefined, Num(0), Num(30), Str(<<"4", "5">>)},
   tone : {Undefined, Str(<<"casual">>)},
   industry : {Undefined, Str(<<>>), Str(<<"finance">>)}]

\* Request bodies: text that is not JSON, the JSON text null, and JSON
\* objects with each topic.
Bodies ==
  {[kind |-> "malformed", topic |-> Undefined, opts |-> NoOptions],
   [kind |-> "null", topic |-> Undefined, opts |-> NoOptions]}
  \cup {[kind |-> "object", topic |-> t, opts |-> NoOptions] : t \in Topics}

\* JavaScript truthiness of a value: !options.topic is its negation.
Truthy(v) ==
  \/ v.t = "string" /\ v.s # <<>>
  \/ v.t = "number" /\ v.n # 0

\* a || b
Or(a, b) == IF Truthy(a) THEN a ELSE b

DigitChars == <<"0", "1", "2", "3", "4", "5", "6", "7", "8", "9">>

\* The decimal digits of a natural number.
RECURSIVE Digits(_)
Digits(n) ==
  IF n < 10 THEN <<DigitChars[n + 1]>>
  ELSE Digits(n \div 10) \o <<DigitChars[(n % 10) + 1]>>

\* String(v) of a string or a natural number.
String(v) == IF v.t = "number" THEN Str(Digits(v.n)) ELSE v

\* A path as an argument of the process.
PathArg(p) == [t |-> "path", p |-> p]

SCRIPTS_DIR ==
  DIRNAME \o <<Seg(".claude"), Seg("skills"), Seg("ui-ux-pro-max"), Seg("scripts")>>

\* As SpawnArgs, with the audience taken from the type and the type from the
\* audience.
SpawnArgsSwapped(body, id) ==
  << PathArg(PathJoin(SCRIPTS_DIR, <<File("search", ".py")>>)),
     body.topic,
     Str(<<"--presentation">>),
     Str(<<"--type">>), Or(body.opts.audience, Str(<<"business_presentation">>)),
     Str(<<"--audience">>), Or(body.opts.type, Str(<<"general_employees">>)),
     Str(<<"--duration">>), String(Or(body.opts.duration, Num(15))),
     Str(<<"--tone">>), Or(body.opts.tone, Str(<<"professional">>)),
     Str(<<"--industry">>), Or(body.opts.industry, Str(<<>>)),
     Str(<<"--output">>), PathArg(PathJoin(OUTPUT_DIR, <<PresentationName(id)>>)),
     Str(<<"--presentation-format">>), Str(<<"reveal_js">>) >>

\* The argument vector of spawn('python3', [...]) for the parsed body and a
\* fresh identifier.
SpawnArgs(body, id) ==
  << PathArg(PathJoin(SCRIPTS_DIR, <<File("search", ".py")>>)),
     body.topic,
     Str(<<"--presentation">>),
     Str(<<"--type">>), Or(body.opts.type, Str(<<"business_presentation">>)),
     Str(<<"--audience">>), Or(body.opts.audience, Str(<<"general_employees">>)),
     Str(<<"--duration">>), String(Or(body.opts.duration, Num(15))),
     Str(<<"--tone">>), Or(body.opts.tone, Str(<<"professional">>)),
     Str(<<"--industry">>), Or(body.opts.industry, Str(<<>>)),
     Str(<<"--output">>), PathArg(PathJoin(OUTPUT_DIR, <<PresentationName(id)>>)),
     Str(<<"--presentation-format">>), Str(<<"reveal_js">>) >>

JsonResponse(status, v) == Response(status, "application/json", JsonBody(v))

\* As Failure, with the message alone.
FailureMessageOnly(message) == [error |-> message]

Failure(message) == [success |-> FALSE, error |-> message]

\* e.message of the SyntaxError JSON.parse throws, and of the TypeError that
\* reading a property of null throws.
JsonParseError == <<"Unexpected token">>
NullTopicError == <<"Cannot read properties of null">>

\* As EndOutcome, with text that is not JSON answered as a bad request.
EndOutcomeParse400(body) ==
  IF body.kind = "malformed"
  THEN [spawn |-> FALSE, resp |-> JsonResponse(400, Failure(JsonParseError))]
  ELSE IF body.kind = "null"
  THEN [spawn |-> FALSE, resp |-> JsonResponse(500, Failure(NullTopicError))]
  ELSE IF ~Truthy(body.topic)
  THEN [spawn |-> FALSE, resp |-> JsonResponse(400, Failure(<<"topic required">>))]
  ELSE [spawn |-> TRUE, resp |-> NoResponse]

\* The 'end' handler up to the await: JSON.parse throws on text that is not
\* JSON, reading .topic of null throws, both caught by the handler's catch;
\* a falsy topic is answered 400; otherwise the process is spawned.
EndOutcome(body) ==
  IF body.kind = "malformed"
  THEN [spawn |-> FALSE, resp |-> JsonResponse(500, Failure(JsonParseError))]
  ELSE IF body.kind = "null"
  THEN [spawn |-> FALSE, resp |-> JsonResponse(500, Failure(NullTopicError))]
  ELSE IF ~Truthy(body.topic)
  THEN [spawn |-> FALSE, resp |-> JsonResponse(400, Failure(<<"topic required">>))]
  ELSE [spawn |-> TRUE, resp |-> NoResponse]

\* fs.readdirSync(OUTPUT_DIR).filter(startsWith('presentation_') && endsWith('.html'))
PresentationFiles(dir) ==
  {f \in DOMAIN dir : f.pre = "presentation_" /\ f.ext = ".html"}

\* .sort(): ascending by name; the names differ in their identifiers only.
RECURSIVE Sort(_)
Sort(S) ==
  IF S = {} THEN <<>>
  ELSE LET least == CHOOSE f \in S : \A g \in S : f.id <= g.id
       IN  <<least>> \o Sort(S \ {least})

Reverse(q) == [k \in 1..Len(q) |-> q[Len(q) + 1 - k]]

\* As CloseResult, with a failed run resolved without its success field.
CloseResultBare(code, stderr, dir) ==
  IF code = 0
  THEN LET files == Reverse(Sort(PresentationFiles(dir)))
       IN  IF Len(files) > 0
           THEN [success |-> TRUE, url |-> <<Seg("output"), files[1]>>, filename |-> files[1]]
           ELSE Failure(<<"no output file found">>)
  ELSE [error |-> IF stderr # <<>> THEN stderr ELSE <<"generation failed">>]

\* The result the 'close' handler resolves with. A code of -1 stands for the
\* null code of a process ended by a signal.
CloseResult(code, stderr, dir) ==
  IF code = 0
  THEN LET files == Reverse(Sort(PresentationFiles(dir)))
       IN  IF Len(files) > 0
           THEN [success |-> TRUE, url |-> <<Seg("output"), files[1]>>, filename |-> files[1]]
           ELSE Failure(<<"no output file found">>)
  ELSE Failure(IF stderr # <<>> THEN stderr ELSE <<"generation failed">>)

ExitCodes == {0, 1, -1}

\* As ResultStatus, with a failed generation reported in the status line.
ResultStatusByOutcome(result) == IF result.success THEN 200 ELSE 500

\* res.writeHead(200, ...) for the awaited result, whatever it is.
ResultStatus(result) == 200

\* A generation request: its state (idle, body, running, done), the
\* request, the process's output identifier, captured standard output and
\* standard error,
\* its argument vector, whether the process has written its output file, its exit code, the
\* number of processes spawned and of responses written, and the response.
Idle ==
  [st |-> "idle", method |-> "", url |-> <<>>,
   body |-> [kind |-> "none", topic |-> Undefined, opts |-> NoOptions],
   argv |-> <<>>, outId |-> 0, stdout |-> <<>>, stderr |-> <<>>, wrote |-> FALSE, code |-> 0,
   spawned |-> 0, answers |-> 0, resp |-> NoResponse]

\* The connections that carry a generation request; both may be open at once.
Connections == {1, 2}

\* Request URLs, unparsed.
StaticUrls ==
  { <<EmptySeg>>,
    <<File("app", ".js")>>,
    <<Seg("frontend")>>,
    <<Seg("assets")>>,
    <<Seg("assets"), File("notes", ".txt")>>,
    ApiPath("health"), ApiPath("templates"), ApiPath("presentation-types"),
    ApiPath("audiences"), ApiPath("generate"),
    <<Seg("output"), File("missing", ".html")>>,
    <<Seg("output"), Seg(".."), Seg(".."), Seg("etc"), Seg("passwd")>>,
    <<Seg("output"), Seg(".."), IndexHtml>>,
    <<Seg("output"), Seg("%2e%2e"), File("server", ".js")>> }

Urls == StaticUrls \cup {<<Seg("output"), f>> : f \in DOMAIN outputDir}

\* Request URLs of the preview server, which reads no method.
PreviewUrls ==
  { <<EmptySeg>>,
    ApiPath("health"), ApiPath("templates"), ApiPath("audiences"),
    <<Seg("output"), File("missing", ".html")>>,
    <<Seg("output"), Seg(".."), Seg(".."), Seg("etc"), Seg("passwd")>>,
    <<Seg("output"), Seg("..")>>,
    <<Seg(".."), Seg(".."), Seg(".."), Seg("etc"), Seg("passwd")>> }
  \cup {<<Seg("output"), f>> : f \in DOMAIN outputDir}

EmptyDir == [f \in {} |-> 0]

\* A presentation left by an earlier server lifetime.
OldFile == PresentationName(generateId(0, RandSpace - 1))

\* A file of another kind that was put there by hand.
OtherFile == File("notes", ".txt")

\* The JavaScript value null.
Null == [t |-> "null", s |-> <<>>]

\* The form data of a fresh form; free text is a sequence of characters.
InitialFormData ==
  [topic |-> <<>>, template |-> "modern-elegant", type |-> "business_presentation",
   audience |-> "general_employees", duration |-> 15, tone |-> "professional",
   industry |-> <<>>, author |-> <<>>]

\* The state of a mounted App, with the number of fetches it has started
\* and the body of the last one.
InitialApp ==
  [step |-> 1, formData |-> InitialFormData, isGenerating |-> FALSE, result |-> Null,
   fetches |-> 0, request |-> [kind |-> "none", topic |-> Undefined, opts |-> NoOptions]]

Init ==
  /\ now = 1
  /\ outputDir \in {EmptyDir, [f \in {OldFile, OtherFile} |-> 0]}
  /\ gens = [c \in Connections |-> Idle]
  /\ last = NoExchange
  /\ earlier = NoExchange
  /\ newest = <<>>
  /\ app = InitialApp

\* handleRequest on a request that a branch other than the generation route
\* answers: the response is written before the handler returns.
HandleSync(method, url) ==
  \E pathname \in {Pathname(url)} :
    \E route \in {RouteOf(method, pathname)} :
      /\ route # "generate"
      /\ last' = [Exchange("combined", method, url, route, Answer(route, pathname))
                    EXCEPT !.answers = Len(BranchesRun(method, pathname))]
      /\ UNCHANGED <<now, outputDir, gens, newest, app>>

SyncRequest(method, url) == HandleSync(method, url) /\ UNCHANGED earlier

\* The same, with the exchange it follows remembered, or not, when that one
\* was an exchange of a catalog route.
RememberedRequest(method, url) ==
  /\ HandleSync(method, url)
  /\ earlier' \in {earlier} \cup (IF last.route = "catalog" THEN {last} ELSE {})

\* The preview server's request callback, with the read it starts.
PreviewRequest(url) ==
  /\ last' = Exchange("preview", "GET", url, PreviewRoute(url), PreviewAnswer(url))
  /\ UNCHANGED <<now, outputDir, gens, earlier, newest, app>>

\* handleRequest on the generation route: the body listeners are attached
\* and the handler returns.
GenerateRequest(c, method, url, body) ==
  /\ gens[c].st = "idle"
  /\ RouteOf(method, Pathname(url)) = "generate"
  /\ gens' = [gens EXCEPT ![c] =
                [Idle EXCEPT !.st = "body", !.method = method, !.url = url, !.body = body]]
  /\ UNCHANGED <<now, outputDir, last, earlier, newest, app>>

\* The 'end' handler when it answers without spawning.
RequestEndReject(c) ==
  /\ gens[c].st = "body"
  /\ ~EndOutcome(gens[c].body).spawn
  /\ gens' = [gens EXCEPT ![c].st = "done", ![c].answers = @ + 1,
                          ![c].resp = EndOutcome(gens[c].body).resp]
  /\ UNCHANGED <<now, outputDir, last, earlier, newest, app>>

\* As RequestEndSpawn, with generatePresentation not awaited: the pending
\* promise is written as the result at once.
RequestEndSpawnNoAwait(c, t, r) ==
  /\ gens[c].st = "body"
  /\ EndOutcome(gens[c].body).spawn
  /\ t >= now
  /\ now' = t
  /\ gens' = [gens EXCEPT ![c].st = "running", ![c].spawned = @ + 1,
                          ![c].outId = generateId(t, r),
                          ![c].argv = SpawnArgs(gens[c].body, generateId(t, r)),
                          ![c].answers = @ + 1,
                          ![c].resp = JsonResponse(200, [pending |-> TRUE])]
  /\ UNCHANGED <<outputDir, last, earlier, newest, app>>

\* As RequestEndSpawn, with the process run to its close before any other
\* is started, as a synchronous spawn would.
RequestEndSpawnSerial(c, t, r) ==
  /\ gens[c].st = "body"
  /\ EndOutcome(gens[c].body).spawn
  /\ \A d \in Connections \ {c} : gens[d].st # "running"
  /\ t >= now
  /\ now' = t
  /\ gens' = [gens EXCEPT ![c].st = "running", ![c].spawned = @ + 1,
                          ![c].outId = generateId(t, r),
                          ![c].argv = SpawnArgs(gens[c].body, generateId(t, r))]
  /\ UNCHANGED <<outputDir, last, earlier, newest, app>>

\* The 'end' handler when it calls generatePresentation: the process is
\* spawned with a fresh --output path and the handler awaits its close.
RequestEndSpawn(c, t, r) ==
  /\ gens[c].st = "body"
  /\ EndOutcome(gens[c].body).spawn
  /\ t >= now
  /\ now' = t
  /\ gens' = [gens EXCEPT ![c].st = "running", ![c].spawned = @ + 1,
                          ![c].outId = generateId(t, r),
                          ![c].argv = SpawnArgs(gens[c].body, generateId(t, r))]
  /\ UNCHANGED <<outputDir, last, earlier, newest, app>>

\* python.stderr 'data': a chunk is appended.
StderrData(c) ==
  /\ gens[c].st = "running"
  /\ Len(gens[c].stderr) < MaxChunks
  /\ gens' = [gens EXCEPT ![c].stderr = Append(@, "Traceback")]
  /\ UNCHANGED <<now, outputDir, last, earlier, newest, app>>

\* python.stdout 'data': a chunk is appended.
StdoutData(c) ==
  /\ gens[c].st = "running"
  /\ Len(gens[c].stdout) < MaxChunks
  /\ gens' = [gens EXCEPT ![c].stdout = Append(@, "Generated 10 slides")]
  /\ UNCHANGED <<now, outputDir, last, earlier, newest, app>>

\* The external process writes the file its --output argument names.
WriteFile(c) ==
  LET f == PresentationName(gens[c].outId)
  IN  /\ gens[c].st = "running"
      /\ ~gens[c].wrote
      /\ outputDir' = [g \in DOMAIN outputDir \cup {f} |-> IF g = f THEN c ELSE outputDir[g]]
      /\ gens' = [gens EXCEPT ![c].wrote = TRUE]
      /\ UNCHANGED <<now, last, earlier, app>>

ProcessWrite(c) == WriteFile(c) /\ UNCHANGED newest

\* The same, with the file recorded as the one created last when the write
\* creates it; writing over a file that is there creates none.
RecordedWrite(c) ==
  /\ WriteFile(c)
  /\ newest' = IF PresentationName(gens[c].outId) \in DOMAIN outputDir
               THEN newest ELSE <<PresentationName(gens[c].outId)>>

\* As ProcessClose, with the presentation files other than the reported one
\* removed after a successful run.
ProcessCloseCleaning(c, code) ==
  /\ gens[c].st = "running"
  /\ gens' = [gens EXCEPT ![c].st = "done", ![c].code = code, ![c].answers = @ + 1,
                          ![c].stderr = <<>>,
                          ![c].resp =
                             LET result == CloseResult(code, gens[c].stderr, outputDir)
                             IN  JsonResponse(ResultStatus(result), result)]
  /\ outputDir' =
        IF code = 0 /\ PresentationFiles(outputDir) # {}
        THEN LET kept == Reverse(Sort(PresentationFiles(outputDir)))[1]
             IN  [f \in (DOMAIN outputDir \ PresentationFiles(outputDir)) \cup {kept} |->
                    outputDir[f]]
        ELSE outputDir
  /\ UNCHANGED <<now, last, earlier, newest, app>>

\* As ProcessClose, with both captured streams taken for the error text.
ProcessCloseMerged(c, code) ==
  /\ gens[c].st = "running"
  /\ gens' = [gens EXCEPT ![c].st = "done", ![c].code = code, ![c].answers = @ + 1,
                          ![c].stderr = <<>>,
                          ![c].resp =
                             LET result == CloseResult(code, gens[c].stderr \o gens[c].stdout,
                                                       outputDir)
                             IN  JsonResponse(ResultStatus(result), result)]
  /\ UNCHANGED <<now, outputDir, last, earlier, newest, app>>

\* python 'close': the result is resolved and the awaiting 'end' handler
\* writes it with status 200. The captured error text is dropped once the
\* result is made.
ProcessClose(c, code) ==
  /\ gens[c].st = "running"
  /\ gens' = [gens EXCEPT ![c].st = "done", ![c].code = code, ![c].answers = @ + 1,
                          ![c].stderr = <<>>,
                          ![c].resp =
                             LET result == CloseResult(code, gens[c].stderr, outputDir)
                             IN  JsonResponse(ResultStatus(result), result)]
  /\ UNCHANGED <<now, outputDir, last, earlier, newest, app>>

Next ==
  \/ \E c \in Connections, method \in Methods, url \in Urls, body \in Bodies :
        GenerateRequest(c, method, url, body)
  \/ \E c \in Connections : RequestEndReject(c)
  \/ \E c \in Connections, t \in 1..MaxClock, r \in 0..(RandSpace - 1) :
        RequestEndSpawn(c, t, r)
  \/ \E c \in Connections : StderrData(c)
  \/ \E c \in Connections : ProcessWrite(c)
  \/ \E c \in Connections, code \in ExitCodes : ProcessClose(c, code)

\* The generation requests of two connections and their processes.
Spec == Init /\ [][Next]_vars

\* Bodies of the one generation request that runs beside the other routes.
RouteBodies ==
  {[kind |-> "malformed", topic |-> Undefined, opts |-> NoOptions],
   [kind |-> "object", topic |-> Str(<<"Q", "4">>), opts |-> NoOptions]}

RouteNext ==
  \/ \E method \in Methods, url \in Urls : SyncRequest(method, url)
  \/ \E url \in PreviewUrls : PreviewRequest(url)
  \/ \E method \in Methods, url \in Urls, body \in RouteBodies :
        GenerateRequest(1, method, url, body)
  \/ RequestEndReject(1)
  \/ \E t \in 1..MaxClock, r \in 0..(RandSpace - 1) : RequestEndSpawn(1, t, r)
  \/ ProcessWrite(1)
  \/ \E code \in ExitCodes : ProcessClose(1, code)

\* Every route of both servers, beside one generation request.
RouteSpec == Init /\ [][RouteNext]_vars

\* The catalog routes called again and again, beside other requests.
CatalogUrls ==
  CatalogPaths \cup {GeneratePath, <<Seg("output"), File("missing", ".html")>>, <<EmptySeg>>}

CatalogNext ==
  \/ \E method \in Methods, url \in CatalogUrls : RememberedRequest(method, url)
  \/ \E method \in Methods, url \in CatalogUrls, body \in RouteBodies :
        GenerateRequest(1, method, url, body)
  \/ RequestEndReject(1)
  \/ \E t \in 1..MaxClock, r \in 0..(RandSpace - 1) : RequestEndSpawn(1, t, r)
  \/ ProcessWrite(1)
  \/ \E code \in ExitCodes : ProcessClose(1, code)

CatalogSpec == Init /\ [][CatalogNext]_vars

\* Bodies that supply, or leave out, each optional member.
OptionBodies ==
  {[kind |-> "object", topic |-> Str(<<"Q", "4">>), opts |-> o] : o \in OptionSets}

ArgvNext ==
  \/ \E method \in Methods, url \in CatalogUrls, body \in OptionBodies :
        GenerateRequest(1, method, url, body)
  \/ \E t \in 1..MaxClock, r \in 0..(RandSpace - 1) : RequestEndSpawn(1, t, r)
  \/ ProcessWrite(1)
  \/ \E code \in ExitCodes : ProcessClose(1, code)

\* One generation request with each set of options.
ArgvSpec == Init /\ [][ArgvNext]_vars

\* Request URLs of a catalog route, the output files and a static asset.
ConcurrentUrls ==
  {ApiPath("health"), GeneratePath, <<File("app", ".js")>>}
  \cup {<<Seg("output"), f>> : f \in DOMAIN outputDir}

ConcurrentNext ==
  \/ \E url \in ConcurrentUrls : SyncRequest("GET", url)
  \/ \E c \in Connections, url \in ConcurrentUrls, body \in RouteBodies :
        GenerateRequest(c, "POST", url, body)
  \/ \E c \in Connections : RequestEndReject(c)
  \/ \E c \in Connections, t \in 1..MaxClock, r \in 0..(RandSpace - 1) :
        RequestEndSpawn(c, t, r)
  \/ \E c \in Connections : ProcessWrite(c)
  \/ \E c \in Connections, code \in ExitCodes : ProcessClose(c, code)

\* Two generation requests beside requests to the other routes.
ConcurrentSpec == Init /\ [][ConcurrentNext]_vars

HangNext ==
  \/ \E c \in Connections, url \in ConcurrentUrls, body \in RouteBodies :
        GenerateRequest(c, "POST", url, body)
  \/ \E c \in Connections : RequestEndReject(c)
  \/ \E c \in Connections, t \in 1..MaxClock, r \in 0..(RandSpace - 1) :
        RequestEndSpawn(c, t, r)
  \/ \E c \in Connections : StderrData(c)
  \/ \E c \in Connections : ProcessWrite(c)
  \/ \E c \in Connections, code \in ExitCodes : ProcessClose(c, code)

\* The event loop runs the 'end' listener of a body that has arrived. What
\* the external process does, and whether it ever closes, is its own: no
\* fairness is assumed of it, nor of the clients.
HangFairness ==
  \A c \in Connections :
    /\ WF_vars(RequestEndReject(c))
    /\ WF_vars(\E t \in 1..MaxClock, r \in 0..(RandSpace - 1) : RequestEndSpawn(c, t, r))

\* Two generation requests whose processes may run for ever.
HangSpec == Init /\ [][HangNext]_vars /\ HangFairness

\* The same, the event loop running the 'end' listener of every body that
\* has arrived.
AnswerSpec == Init /\ [][ConcurrentNext]_vars /\ HangFairness

CreatedNext ==
  \/ \E c \in Connections, body \in RouteBodies :
        GenerateRequest(c, "POST", GeneratePath, body)
  \/ \E c \in Connections : RequestEndReject(c)
  \/ \E c \in Connections, t \in 1..MaxClock, r \in 0..(RandSpace - 1) :
        RequestEndSpawn(c, t, r)
  \/ \E c \in Connections : StderrData(c)
  \/ \E c \in Connections : RecordedWrite(c)
  \/ \E c \in Connections, code \in ExitCodes : ProcessClose(c, code)

\* Two generation requests, the order in which their files are created
\* recorded.
CreatedSpec == Init /\ [][CreatedNext]_vars

StreamNext ==
  \/ \E url \in ConcurrentUrls, body \in Bodies : GenerateRequest(1, "POST", url, body)
  \/ RequestEndReject(1)
  \/ \E t \in 1..MaxClock, r \in 0..(RandSpace - 1) : RequestEndSpawn(1, t, r)
  \/ StdoutData(1)
  \/ StderrData(1)
  \/ ProcessWrite(1)
  \/ \E code \in ExitCodes : ProcessClose(1, code)

\* One generation request whose process writes to both of its streams.
StreamSpec == Init /\ [][StreamNext]_vars

FrameNext ==
  \/ \E method \in Methods, url \in ConcurrentUrls : SyncRequest(method, url)
  \/ \E c \in Connections, url \in ConcurrentUrls, body \in RouteBodies :
        GenerateRequest(c, "POST", url, body)
  \/ \E c \in Connections : RequestEndReject(c)
  \/ \E c \in Connections, t \in 1..MaxClock, r \in 0..(RandSpace - 1) :
        RequestEndSpawn(c, t, r)
  \/ \E c \in Connections : ProcessWrite(c)
  \/ \E c \in Connections, code \in ExitCodes : ProcessClose(c, code)

\* Two generation requests beside requests of every method.
FrameSpec == Init /\ [][FrameNext]_vars

\* -------------------------------------------------------------- form wizard
\* String.prototype.trim on a sequence of characters.
RECURSIVE TrimStart(_)
TrimStart(s) == IF s # <<>> /\ Head(s) = " " THEN TrimStart(Tail(s)) ELSE s

RECURSIVE TrimEnd(_)
TrimEnd(s) == IF s # <<>> /\ s[Len(s)] = " " THEN TrimEnd(Pop(s)) ELSE s

Trim(s) == TrimEnd(TrimStart(s))

\* The empty API base of a front end served from the API's own origin.
API_BASE == <<>>

\* A member of a parsed JSON object: its value, or undefined when absent.
Member(v, f) == IF f \in DOMAIN v THEN [t |-> "value", v |-> v[f]] ELSE Undefined

\* Truthiness of a member: it is there. The strings the server sends are
\* never empty.
Present(v) == v.t = "value"

\* data.data?.f
DataMember(data, f) ==
  IF "data" \in DOMAIN data THEN Member(data.data, f) ELSE Undefined

\* The text of data.f when it is there and not empty, or what follows.
TextOr(data, f, rest) == IF f \in DOMAIN data /\ data[f] # <<>> THEN data[f] ELSE rest

\* The wizard step that renders the input of each field.
FieldStep ==
  [topic |-> 1, industry |-> 1, author |-> 1, type |-> 2, audience |-> 2,
   duration |-> 2, tone |-> 2, template |-> 3]

\* Values typed or chosen in the inputs.
TopicTexts == {<<>>, <<" ">>, <<"Q", "4">>}
IndustryTexts == {<<>>, <<"finance">>}
DurationChoices == {15, 30}

\* The form is rendered only while there is no result.
FormShown == app.result = Null

\* JSON.stringify of the request object, as the server's parser reads it
\* back: the members generatePresentation reads.
RequestBody(fd) ==
  [kind |-> "object", topic |-> Str(fd.topic),
   opts |-> [type |-> Str(<<fd.type>>), audience |-> Str(<<fd.audience>>),
             duration |-> Num(fd.duration), tone |-> Str(<<fd.tone>>),
             industry |-> Str(IF fd.industry # <<>> THEN fd.industry ELSE <<>>)]]

\* handleInputChange from the input of a field, on the step that renders it.
handleInputChange(field, value) ==
  /\ FormShown
  /\ app.step = FieldStep[field]
  /\ app' = [app EXCEPT !.formData[field] = value]
  /\ UNCHANGED <<now, outputDir, gens, last, earlier, newest>>

\* As NextFromTopic, with the button never disabled.
NextFromTopicNotDisabled ==
  /\ FormShown
  /\ app.step = 1
  /\ app' = [app EXCEPT !.step = IF app.formData.topic # <<>> THEN 2 ELSE @]
  /\ UNCHANGED <<now, outputDir, gens, last, earlier, newest>>

\* The next button of step 1: disabled while the trimmed topic is empty,
\* and its handler moves on when the topic is truthy.
NextFromTopic ==
  /\ FormShown
  /\ app.step = 1
  /\ Trim(app.formData.topic) # <<>>
  /\ app' = [app EXCEPT !.step = IF app.formData.topic # <<>> THEN 2 ELSE @]
  /\ UNCHANGED <<now, outputDir, gens, last, earlier, newest>>

\* The next button of step 2.
NextFromDetails ==
  /\ FormShown
  /\ app.step = 2
  /\ app' = [app EXCEPT !.step = 3]
  /\ UNCHANGED <<now, outputDir, gens, last, earlier, newest>>

\* The back buttons of steps 2 and 3.
Back ==
  /\ FormShown
  /\ app.step \in {2, 3}
  /\ app' = [app EXCEPT !.step = @ - 1]
  /\ UNCHANGED <<now, outputDir, gens, last, earlier, newest>>

\* handleGenerate up to its await, from the generate button of step 3, which
\* is disabled while a generation is under way. A blank topic is answered
\* with an alert and nothing else.
handleGenerate ==
  /\ FormShown
  /\ app.step = 3
  /\ ~app.isGenerating
  /\ app.fetches < Cardinality(Connections)
  /\ app' = IF Trim(app.formData.topic) = <<>> THEN app
            ELSE [app EXCEPT !.isGenerating = TRUE, !.result = Null, !.fetches = @ + 1,
                             !.request = RequestBody(app.formData)]
  /\ UNCHANGED <<now, outputDir, gens, last, earlier, newest>>

\* The fetch of the wizard reaches the combined server on a connection of
\* its own.
FetchArrives ==
  /\ app.isGenerating
  /\ GenerateRequest(app.fetches, "POST", GeneratePath, app.request)

\* The result handleGenerate makes of a response with a JSON body.
ResultOf(status, data) ==
  IF status \in 200..299 /\ "success" \in DOMAIN data /\ data.success
  THEN [success |-> TRUE,
        message |-> TextOr(data, "message", <<"generated">>),
        url |-> LET u == DataMember(data, "url")
                IN  IF Present(u)
                    THEN [u EXCEPT !.v = IF API_BASE # <<>> THEN API_BASE \o @ ELSE @]
                    ELSE Null,
        filename |-> DataMember(data, "filename"),
        title |-> DataMember(data, "title"),
        slide_count |-> DataMember(data, "slide_count")]
  ELSE [success |-> FALSE,
        message |-> TextOr(data, "error", TextOr(data, "message", <<"failed, retry">>))]

\* handleGenerate after its await, when the response has come: the result is
\* set from the parsed body and isGenerating is cleared.
FetchResolved ==
  /\ app.isGenerating
  /\ gens[app.fetches].st = "done"
  /\ app' = [app EXCEPT !.isGenerating = FALSE,
                        !.result = LET resp == gens[app.fetches].resp
                                   IN  ResultOf(resp.status,
                                                IF resp.body.kind = "json"
                                                THEN resp.body.value ELSE [none |-> 0])]
  /\ UNCHANGED <<now, outputDir, gens, last, earlier, newest>>

\* handleGenerate after its await, when fetch rejects because the server
\* was never reached.
FetchRejected ==
  /\ app.isGenerating
  /\ gens[app.fetches].st = "idle"
  /\ app' = [app EXCEPT !.isGenerating = FALSE,
                        !.result = [success |-> FALSE, message |-> <<"Failed to fetch">>]]
  /\ UNCHANGED <<now, outputDir, gens, last, earlier, newest>>

\* resetForm, from the buttons of the result view.
resetForm ==
  /\ ~FormShown
  /\ app' = [app EXCEPT !.step = 1, !.formData = InitialFormData, !.result = Null]
  /\ UNCHANGED <<now, outputDir, gens, last, earlier, newest>>

\* What the result view renders of a result: the frame's source, the
\* address the open button opens, and the link's address and file name.
ResultView(result) ==
  [frame |-> IF result.success /\ Present(result.url) THEN result.url ELSE Null,
   open |-> IF result.success /\ Present(result.url) THEN result.url ELSE Null,
   href |-> IF result.success /\ Present(result.filename) /\ Present(result.url)
            THEN result.url ELSE Null,
   download |-> IF result.success /\ Present(result.filename) /\ Present(result.url)
                THEN result.filename ELSE Null]

WizardNext ==
  \/ \E value \in TopicTexts : handleInputChange("topic", value)
  \/ \E value \in IndustryTexts : handleInputChange("industry", value)
  \/ NextFromTopic
  \/ NextFromDetails
  \/ Back
  \/ handleGenerate
  \/ FetchArrives
  \/ FetchRejected
  \/ \E c \in Connections, t \in 1..MaxClock, r \in 0..(RandSpace - 1) :
        RequestEndSpawn(c, t, r)
  \/ \E c \in Connections : StderrData(c)
  \/ \E c \in Connections : ProcessWrite(c)
  \/ \E c \in Connections, code \in ExitCodes : ProcessClose(c, code)
  \/ FetchResolved
  \/ resetForm

\* One wizard in a browser and the combined server it posts to. The 'end'
\* handler's rejecting branch needs a body the wizard never sends.
WizardSpec == Init /\ [][WizardNext]_vars

FormNext ==
  \/ \E value \in TopicTexts : handleInputChange("topic", value)
  \/ \E value \in IndustryTexts : handleInputChange("industry", value)
  \/ \E value \in DurationChoices : handleInputChange("duration", value)
  \/ NextFromTopic
  \/ NextFromDetails
  \/ Back
  \/ handleGenerate
  \/ FetchArrives
  \/ FetchRejected
  \/ \E c \in Connections, t \in 1..MaxClock, r \in 0..(RandSpace - 1) :
        RequestEndSpawn(c, t, r)
  \/ \E c \in Connections, code \in ExitCodes : ProcessClose(c, code)
  \/ FetchResolved
  \/ resetForm

\* The wizard's own steps, with the server's process seen only by its start
\* and its close.
FormSpec == Init /\ [][FormNext]_vars

\* =================================================================== claims
\* A topic that is missing, empty or whitespace only.
BlankTopic(v) == v.t = "undefined" \/ Trim(v.s) = <<>>

HasTopic(g) == g.body.kind = "object" /\ ~BlankTopic(g.body.topic)

\* A response whose body is JSON with a boolean success field.
GenerationResultBody(resp) ==
  /\ resp.ctype = "application/json"
  /\ resp.body.kind = "json"
  /\ "success" \in DOMAIN resp.body.value
  /\ resp.body.value.success \in BOOLEAN

FailureBody(resp) == GenerationResultBody(resp) /\ resp.body.value.success = FALSE

\* C1: a POST /api/generate whose body is a JSON object with a topic that is
\* not blank has no process before its body has ended, exactly one process
\* from then on, no response while that process runs, and after the close
\* exactly one response, a JSON body with a boolean success field.
C1_SpawnedOnceThenAnswered ==
  \A c \in Connections :
    LET g == gens[c]
    IN  HasTopic(g) =>
          /\ g.method = "POST" /\ Pathname(g.url) = GeneratePath
          /\ g.st = "body" => g.spawned = 0 /\ g.answers = 0
          /\ g.st = "running" => g.spawned = 1 /\ g.answers = 0
          /\ g.st = "done" => g.spawned = 1 /\ g.answers = 1 /\ GenerationResultBody(g.resp)

\* C1 witness: a request with a topic was answered after its process failed,
\* another after its process succeeded.
C1_Witness ==
  \E c, d \in Connections :
    /\ HasTopic(gens[c]) /\ gens[c].st = "done" /\ gens[c].code # 0
    /\ HasTopic(gens[d]) /\ gens[d].st = "done" /\ gens[d].code = 0
    /\ gens[d].resp.body.value.success

\* C2: a JSON object body whose topic is missing, empty or whitespace only
\* is answered 400 with success false and a message, and never has a process.
C2_BlankTopicRejected ==
  \A c \in Connections :
    LET g == gens[c]
    IN  (g.body.kind = "object" /\ BlankTopic(g.body.topic)) =>
          /\ g.spawned = 0
          /\ g.st # "running"
          /\ g.st = "done" =>
                /\ g.resp.status = 400
                /\ FailureBody(g.resp)
                /\ g.resp.body.value.error # <<>>

\* C3: a body that is not JSON never has a process and is answered with a
\* 5xx status, success false and the parse failure's message.
C3_MalformedIs5xx ==
  \A c \in Connections :
    LET g == gens[c]
    IN  g.body.kind = "malformed" =>
          /\ g.spawned = 0
          /\ g.st # "running"
          /\ g.st = "done" =>
                /\ g.resp.status \in 500..599
                /\ FailureBody(g.resp)
                /\ g.resp.body.value.error = JsonParseError
                /\ g.answers = 1

\* C3 witness: a body that is not JSON has been answered.
C3_Witness ==
  \E c \in Connections : gens[c].body.kind = "malformed" /\ gens[c].st = "done"

\* The file a connection's own process wrote is in the output directory.
OwnFileWritten(c) ==
  /\ gens[c].wrote
  /\ PresentationName(gens[c].outId) \in DOMAIN outputDir
  /\ outputDir[PresentationName(gens[c].outId)] = c

\* C4: when two requests with different topics are in flight together, each
\* process having written its own file, a process that closes with code 0
\* has its request answered with the name of the file it wrote itself.
C4_OwnFilenameUnderConcurrency ==
  [][\A c, d \in Connections :
       ( /\ c # d
         /\ gens[c].st = "running" /\ gens[d].st = "running"
         /\ gens[c].body.topic # gens[d].body.topic
         /\ OwnFileWritten(c) /\ OwnFileWritten(d)
         /\ gens'[c].st = "done" /\ gens'[c].code = 0 )
       => /\ gens'[c].resp.body.value.success
          /\ gens'[c].resp.body.value.filename = PresentationName(gens[c].outId)]_vars

\* C7: a process that closes with a code other than 0, or with code 0 while
\* no presentation file is in the output directory, has its request answered
\* once, with status 200 and success false, by the one process spawned for
\* it; an answered request changes no more.
C7_FailureIs200 ==
  [][\A c \in Connections :
       /\ ( /\ gens[c].st = "running" /\ gens'[c].st = "done"
            /\ gens'[c].code # 0 \/ PresentationFiles(outputDir) = {} )
          => /\ gens'[c].resp.status = 200
             /\ FailureBody(gens'[c].resp)
             /\ gens'[c].spawned = 1
             /\ gens'[c].answers = 1
       /\ gens[c].st = "done" => gens'[c] = gens[c]]_vars

\* C7 witness: one process has closed with a code other than 0, another with
\* code 0 and nothing to report.
C7_Witness ==
  \E c, d \in Connections :
    /\ gens[c].st = "done" /\ gens[c].spawned = 1 /\ gens[c].code # 0
    /\ gens[d].st = "done" /\ gens[d].spawned = 1 /\ gens[d].code = 0
    /\ ~gens[d].resp.body.value.success

\* The path of an exchange as its server reads it: the parsed pathname in
\* the combined server, req.url in the preview server.
PathRead(ex) == IF ex.server = "combined" THEN Pathname(ex.url) ELSE ex.url

CatalogGet(ex) ==
  ex.server = "combined" /\ ex.method = "GET" /\ Pathname(ex.url) \in CatalogPaths

\* C6: a GET of a catalog route is answered 200 with the body every earlier
\* GET of the same path was answered with; the lists have 4, 7 and 6 entries.
C6_CatalogIdempotent ==
  CatalogGet(last) =>
    /\ last.resp.status = 200
    /\ last.resp.body.kind = "json"
    /\ (CatalogGet(earlier) /\ Pathname(earlier.url) = Pathname(last.url)) =>
          last.resp = earlier.resp
    /\ Pathname(last.url) = ApiPath("templates") => Len(last.resp.body.value.templates) = 4
    /\ Pathname(last.url) = ApiPath("presentation-types") => Len(last.resp.body.value.types) = 7
    /\ Pathname(last.url) = ApiPath("audiences") => Len(last.resp.body.value.audiences) = 6

\* C6 witness: /api/health was answered before the generation request
\* arrived (the remembered exchange) and again after its process wrote a
\* file and closed.
C6_Witness ==
  /\ CatalogGet(last) /\ CatalogGet(earlier)
  /\ Pathname(last.url) = ApiPath("health") /\ earlier.url = last.url
  /\ gens[1].st = "done" /\ gens[1].wrote /\ gens[1].code = 0

\* C8: an OPTIONS request to any path is answered 204 with an empty body by
\* the branch before the routes, hands no path to fs and never becomes a
\* generation request; every response of the combined server carries the
\* three CORS headers.
C8_OptionsShortCircuit ==
  /\ (last.server = "combined" /\ last.method = "OPTIONS") =>
        /\ last.route = "options"
        /\ last.resp.status = 204
        /\ last.resp.body = EmptyBody
        /\ last.read = {} /\ last.probed = {}
        /\ last.spawned = 0
  /\ last.server = "combined" => last.resp.headers = CorsHeaders
  /\ \A c \in Connections :
        /\ gens[c].method # "OPTIONS"
        /\ gens[c].st = "done" => gens[c].resp.headers = CorsHeaders

\* C8 witness: OPTIONS /api/generate has been answered.
C8_Witness ==
  last.server = "combined" /\ last.method = "OPTIONS" /\ Pathname(last.url) = GeneratePath

\* C9: a catalog path requested with a method other than GET and OPTIONS is
\* not answered with the catalog but by a later branch.
C9_CatalogOnlyForGet ==
  (last.server = "combined" /\ Pathname(last.url) \in CatalogPaths
     /\ last.method \notin {"GET", "OPTIONS"}) =>
    /\ last.route \in {"output", "static"}
    /\ ~(last.resp.status = 200 /\ last.resp.body.kind = "json")

\* C10: only a POST to /api/generate becomes a generation request; any other
\* method on that path has no process, and when it is not OPTIONS it is
\* answered by the static fallback.
C10_GenerateOnlyForPost ==
  /\ \A c \in Connections :
        /\ gens[c].st # "idle" => gens[c].method = "POST" /\ Pathname(gens[c].url) = GeneratePath
        /\ gens[c].st = "idle" => gens[c].spawned = 0
  /\ (last.server = "combined" /\ Pathname(last.url) = GeneratePath) =>
        /\ last.method # "POST"
        /\ last.spawned = 0
        /\ last.method # "OPTIONS" => last.route = "static" /\ last.resp.status = 404

\* C10 witness: GET /api/generate has been answered while a POST to the
\* same path had its process running.
C10_Witness ==
  /\ last.server = "combined" /\ last.method = "GET" /\ Pathname(last.url) = GeneratePath
  /\ gens[1].st = "running"

\* A member the body supplies.
Supplied(v) == v.t # "undefined"

\* The value of the body when supplied, otherwise the default.
OwnWhenSupplied(v, default) == IF Supplied(v) THEN String(v) ELSE default

\* The value of the body when supplied and neither the empty string nor
\* zero, otherwise the default.
OwnWhenTruthy(v, default) ==
  IF Supplied(v) /\ v # Str(<<>>) /\ v # Num(0) THEN String(v) ELSE default

\* The argument vector the claim describes, for a way to choose between a
\* member of the body and its default.
ClaimedArgs(g, Choose(_, _)) ==
  << PathArg(SCRIPTS_DIR \o <<File("search", ".py")>>),
     g.body.topic,
     Str(<<"--presentation">>),
     Str(<<"--type">>), Choose(g.body.opts.type, Str(<<"business_presentation">>)),
     Str(<<"--audience">>), Choose(g.body.opts.audience, Str(<<"general_employees">>)),
     Str(<<"--duration">>), Choose(g.body.opts.duration, Str(<<"1", "5">>)),
     Str(<<"--tone">>), Choose(g.body.opts.tone, Str(<<"professional">>)),
     Str(<<"--industry">>), Choose(g.body.opts.industry, Str(<<>>)),
     Str(<<"--output">>), g.argv[15],
     Str(<<"--presentation-format">>), Str(<<"reveal_js">>) >>

\* The --output argument is presentation_<id>.html inside the output
\* directory, <id> being the identifier drawn for this request.
OutputArgInside(g) ==
  /\ Len(g.argv) = 17
  /\ g.argv[15].t = "path"
  /\ InOutputDir(g.argv[15].p)
  /\ g.argv[15].p[Len(g.argv[15].p)] = PresentationName(g.outId)

\* C11 as stated: the argument vector of every spawned process is the
\* script, the topic and the flags in their order, each of type, audience,
\* duration, tone and industry being the request's own value whenever the
\* body supplies it and the default otherwise.
C11_ArgvOwnWhenSupplied ==
  \A c \in Connections :
    gens[c].spawned = 1 =>
      OutputArgInside(gens[c]) /\ gens[c].argv = ClaimedArgs(gens[c], OwnWhenSupplied)

\* C11 amended: the same, each of type, audience, duration, tone and
\* industry being the request's own value when the body supplies one that
\* is neither the empty string nor zero, and the default otherwise; no
\* request has an argument vector before its process is spawned.
C11_ArgvOwnWhenTruthy ==
  \A c \in Connections :
    /\ gens[c].spawned = 1 =>
          OutputArgInside(gens[c]) /\ gens[c].argv = ClaimedArgs(gens[c], OwnWhenTruthy)
    /\ gens[c].spawned = 0 => gens[c].argv = <<>>

\* C11 witness: a process was spawned for a body that supplies every
\* option, its type as the empty string.
C11_Witness ==
  /\ gens[1].spawned = 1
  /\ gens[1].body.opts.type = Str(<<>>)
  /\ gens[1].body.opts.audience = Str(<<"executives">>)
  /\ gens[1].body.opts.duration = Num(30)
  /\ gens[1].body.opts.tone = Str(<<"casual">>)
  /\ gens[1].body.opts.industry = Str(<<"finance">>)
  /\ gens[1].argv[5] = Str(<<"business_presentation">>)
  /\ gens[1].argv[9] = Str(<<"3", "0">>)

\* C12: while the process of one generation request runs, a request to a
\* catalog route, an output file or a static asset can be handled and is
\* answered in that step, and a generation request on another connection
\* can be accepted, can end its body with a rejection or with a process of
\* its own, and can be answered at the close of its own process, all with
\* the first process still running.
C12_OthersServedWhileRunning ==
  \A c \in Connections :
    gens[c].st = "running" =>
      /\ \A url \in ConcurrentUrls :
            ENABLED ( /\ SyncRequest("GET", url)
                      /\ last'.resp.status \in {200, 404}
                      /\ gens' = gens )
      /\ \A d \in Connections \ {c} :
            /\ gens[d].st = "idle" =>
                  \A body \in RouteBodies :
                    ENABLED ( /\ GenerateRequest(d, "POST", GeneratePath, body)
                              /\ gens'[c] = gens[c] )
            /\ (gens[d].st = "body" /\ ~EndOutcome(gens[d].body).spawn) =>
                  ENABLED ( /\ RequestEndReject(d)
                            /\ gens'[d].answers = 1
                            /\ gens'[c] = gens[c] )
            /\ (gens[d].st = "body" /\ EndOutcome(gens[d].body).spawn) =>
                  ENABLED ( /\ RequestEndSpawn(d, now, 0)
                            /\ gens'[d].spawned = 1
                            /\ gens'[c] = gens[c] )
            /\ gens[d].st = "running" =>
                  \A code \in ExitCodes :
                    ENABLED ( /\ ProcessClose(d, code)
                              /\ gens'[d].answers = 1
                              /\ gens'[c] = gens[c] )

\* C12 witness: with the first connection's process still running, the file
\* it wrote has been served from /output/ and the second connection's
\* request has been answered after a process of its own.
C12_Witness ==
  /\ gens[1].st = "running"
  /\ gens[2].st = "done" /\ gens[2].spawned = 1 /\ gens[2].resp.body.value.success
  /\ last.route = "output" /\ last.resp.status = 200
  /\ last.resp.body.data.version = 1

\* C13: a request whose process was spawned has no response while the
\* process runs and exactly one once it has closed; the only step that ends
\* a running process's request is its close, which writes the result of that
\* close; a request whose body has arrived is rejected or gets its process;
\* and a closed process leads to a written response as a written response
\* leads to a closed process.
C13_AnsweredOnlyAtClose ==
  /\ [](\A c \in Connections :
          /\ gens[c].st = "running" => gens[c].answers = 0 /\ gens[c].resp = NoResponse
          /\ gens[c].spawned = 1 => (gens[c].answers = 1 <=> gens[c].st = "done"))
  /\ [][\A c \in Connections :
          (gens[c].st = "running" /\ gens'[c] # gens[c] /\ gens'[c].st # "running")
            => /\ gens'[c].st = "done" /\ gens'[c].answers = 1
               /\ gens'[c].resp =
                     JsonResponse(200, CloseResult(gens'[c].code, gens[c].stderr, outputDir))]_vars
  /\ \A c \in Connections :
        /\ (gens[c].st = "body") ~> (gens[c].st \in {"running", "done"})
        /\ (gens[c].spawned = 1 /\ gens[c].st = "done")
              ~> (gens[c].spawned = 1 /\ gens[c].answers = 1)
        /\ (gens[c].spawned = 1 /\ gens[c].answers = 1)
              ~> (gens[c].spawned = 1 /\ gens[c].st = "done")

\* C13 witness: one process has closed and its request is answered, the
\* other, spawned no later, still runs with captured error output and its
\* request has no response.
C13_Witness ==
  /\ gens[1].st = "running" /\ gens[1].stderr # <<>> /\ gens[1].answers = 0
  /\ gens[1].outId <= gens[2].outId
  /\ gens[2].st = "done" /\ gens[2].spawned = 1 /\ gens[2].answers = 1

\* Every running process closes in the end.
HangNeverHappens ==
  \A c \in Connections : (gens[c].st = "running") ~> (gens[c].st = "done")

\* The final segment of a path, a trailing slash set aside.
FinalSegment(p) == IF p[Len(p)] = EmptySeg /\ Len(p) > 1 THEN p[Len(p) - 1] ELSE p[Len(p)]

\* The content type the output route gives an extension.
OutputTypeOf(ext) ==
  IF ToLowerCase(ext) \in DOMAIN MIME_TYPES THEN MIME_TYPES[ToLowerCase(ext)] ELSE "text/html"

\* C14: a GET whose path is under /output/ is answered, when the output
\* directory holds a file of the name of the path's final segment at that
\* moment, with status 200, that file's bytes as they are then and the
\* content type of its extension (text/html when unmapped), and otherwise
\* with status 404 and the HTML not-found body; and once a generation has
\* been answered with success, a GET of the url it returned is answered 200
\* with the bytes of the file of the returned name.
C14_OutputFileServed ==
  /\ [][(last' # last /\ last'.server = "combined" /\ last'.method = "GET"
           /\ StartsWithOutput(Pathname(last'.url)))
          => LET name == FinalSegment(Pathname(last'.url))
             IN  IF name \in DOMAIN outputDir
                 THEN /\ last'.resp.status = 200
                      /\ last'.resp.ctype = OutputTypeOf(name.ext)
                      /\ last'.resp.body =
                            BytesBody([file |-> OUTPUT_DIR \o <<name>>,
                                       version |-> outputDir[name]])
                 ELSE /\ last'.resp.status = 404
                      /\ last'.resp.body.kind = "html"
                      /\ last'.resp.body = NotFoundPage]_vars
  /\ [](\A c \in Connections :
          (gens[c].st = "done" /\ gens[c].spawned = 1 /\ gens[c].resp.body.value.success)
            => LET result == gens[c].resp.body.value
               IN  /\ result.url = <<Seg("output"), result.filename>>
                   /\ result.filename \in DOMAIN outputDir
                   /\ ENABLED ( /\ SyncRequest("GET", result.url)
                                /\ last'.resp.status = 200
                                /\ last'.resp.body.kind = "bytes"
                                /\ last'.resp.body.data.file = OUTPUT_DIR \o <<result.filename>> ))

\* C14 witness: the generation was answered with success, naming the file
\* its process wrote, and a GET of the returned url has since been answered
\* 200 with that file.
C14_Witness ==
  /\ gens[1].st = "done" /\ gens[1].spawned = 1 /\ gens[1].resp.body.value.success
  /\ gens[1].resp.body.value.filename = PresentationName(gens[1].outId)
  /\ last.server = "combined" /\ last.method = "GET"
  /\ last.url = gens[1].resp.body.value.url
  /\ last.resp.status = 200 /\ last.resp.body.data.version = 1

\* A request that is neither a pre-flight nor one of an API or output route.
NoApiOrOutputRoute(method, pathname) ==
  /\ method # "OPTIONS"
  /\ pathname \notin CatalogPaths
  /\ ~(pathname = GeneratePath /\ method = "POST")
  /\ ~StartsWithOutput(pathname)

\* The path inside the front-end directory that a request path resolves to.
FrontendFile(pathname) ==
  FRONTEND_DIR \o (IF pathname \in {<<EmptySeg>>, <<IndexHtml>>} THEN <<IndexHtml>> ELSE pathname)

\* C15: a request of no API or output route is answered from the path it
\* resolves to inside the front-end directory, index.html for / and
\* /index.html: 200 with the bytes and the content type of the extension
\* (application/octet-stream when unmapped) when that path is a regular
\* file, 404 with the landing page when it is missing or a directory; the
\* step reads nothing outside the front-end directory, and starts no
\* process.
C15_StaticFallback ==
  [][(last' # last /\ last'.server = "combined"
       /\ NoApiOrOutputRoute(last'.method, Pathname(last'.url)))
      => LET file == FrontendFile(Pathname(last'.url))
             ext == ToLowerCase(file[Len(file)].ext)
         IN  /\ IF file \in StaticFiles
                THEN /\ last'.resp.status = 200
                     /\ last'.resp.body = BytesBody([file |-> file, version |-> 0])
                     /\ last'.resp.ctype =
                           IF ext \in DOMAIN MIME_TYPES THEN MIME_TYPES[ext]
                           ELSE "application/octet-stream"
                ELSE /\ last'.resp.status = 404
                     /\ last'.resp.body = LandingPage
             /\ \A q \in last'.read \cup last'.probed : IsPrefix(FRONTEND_DIR, q)
             /\ last'.spawned = 0
             /\ gens' = gens /\ outputDir' = outputDir]_vars

\* C15 witness: the directory /assets has been answered 404 with the
\* landing page while a generation process was running.
C15_Witness ==
  /\ last.server = "combined" /\ last.method = "GET"
  /\ last.url = <<Seg("assets")>>
  /\ IsDirectory(FrontendFile(Pathname(last.url)))
  /\ last.resp.status = 404 /\ last.resp.body = LandingPage
  /\ gens[1].st = "running"

\* A response as the branch of a route class writes it.
ResponseOfClass(route, resp) ==
  CASE route = "options" -> resp.status = 204 /\ resp.body = EmptyBody
    [] route = "catalog" -> resp.status = 200 /\ resp.body.kind = "json"
    [] route = "output" -> resp.status \in {200, 404} /\ resp.body.kind \in {"bytes", "html"}
    [] route = "static" -> resp.status \in {200, 404} /\ resp.body.kind \in {"bytes", "html"}
    [] route = "generate" ->
         /\ resp.status \in {200, 400, 500}
         /\ resp.ctype = "application/json" /\ resp.body.kind = "json"
    [] OTHER -> FALSE

\* C16: a request of a route that answers at once has exactly one response,
\* written by the branch of its one route class; a generation request has no
\* response before its body has ended and while its process runs, and
\* exactly one, written by the generation route, once it was rejected or its
\* process has closed; an answered request changes no more; and a request
\* whose body has arrived is answered or has its process running.
C16_AnsweredExactlyOnce ==
  /\ [](last.server = "combined" =>
          /\ last.answers = 1
          /\ last.route \in {"options", "catalog", "output", "static"}
          /\ ResponseOfClass(last.route, last.resp))
  /\ [](\A c \in Connections :
          /\ gens[c].answers \in {0, 1}
          /\ gens[c].answers = 1 <=> gens[c].st = "done"
          /\ gens[c].answers = 0 => gens[c].resp = NoResponse
          /\ gens[c].answers = 1 => ResponseOfClass("generate", gens[c].resp)
          /\ gens[c].spawned \in {0, 1}
          /\ (gens[c].st = "done" /\ gens[c].spawned = 0) => gens[c].resp.status \in {400, 500}
          /\ (gens[c].st = "done" /\ gens[c].spawned = 1) => gens[c].resp.status = 200)
  /\ [][\A c \in Connections : gens[c].answers = 1 => gens'[c] = gens[c]]_vars
  /\ \A c \in Connections :
        (gens[c].st = "body") ~> (gens[c].answers = 1 \/ gens[c].st = "running")

\* C16 witness: one generation request was rejected for its body, the other
\* answered after its process closed, and /api/health has been answered
\* since, each once.
C16_Witness ==
  /\ gens[1].st = "done" /\ gens[1].spawned = 0 /\ gens[1].answers = 1
  /\ gens[2].st = "done" /\ gens[2].spawned = 1 /\ gens[2].answers = 1
  /\ last.server = "combined" /\ last.route = "catalog" /\ last.answers = 1

\* The presentation file of the greatest name in a directory.
GreatestName(dir) ==
  CHOOSE f \in PresentationFiles(dir) : \A g \in PresentationFiles(dir) : g.id <= f.id

\* C17: a process that closes with code 0 while the output directory holds
\* a presentation file has its request answered with success, the file of
\* the greatest name as filename and /output/ followed by it as url, and
\* that file is the presentation file created last.
C17_NewestFileReported ==
  [][\A c \in Connections :
       ( /\ gens[c].st = "running" /\ gens'[c].st = "done" /\ gens'[c].code = 0
         /\ PresentationFiles(outputDir) # {} )
       => LET result == gens'[c].resp.body.value
          IN  /\ result.success
              /\ result.filename = GreatestName(outputDir)
              /\ result.url = <<Seg("output"), result.filename>>
              /\ DOMAIN result = {"success", "url", "filename"}
              /\ newest # <<>> => result.filename = newest[1]]_vars

\* C18: a process that closes has its request answered with a result that
\* its exit code, the captured standard-error text and the presentation
\* files of the output directory determine: code 0 and no presentation file
\* give success false with the no-output-file message; any other code, the
\* one of a signal included, gives success false with the standard-error
\* text when there is some and the generic message when there is none,
\* whatever the directory holds; what was captured of standard output
\* changes nothing.
C18_ResultByCodeAndDirectory ==
  [][\A c \in Connections :
       (gens[c].st = "running" /\ gens'[c].st = "done")
       => LET result == gens'[c].resp.body.value
              code == gens'[c].code
          IN  /\ (code = 0 /\ PresentationFiles(outputDir) = {})
                    => result = [success |-> FALSE, error |-> <<"no output file found">>]
              /\ (code = 0 /\ PresentationFiles(outputDir) # {})
                    => result.success /\ "error" \notin DOMAIN result
              /\ (code # 0 /\ gens[c].stderr # <<>>)
                    => result = [success |-> FALSE, error |-> gens[c].stderr]
              /\ (code # 0 /\ gens[c].stderr = <<>>)
                    => result = [success |-> FALSE, error |-> <<"generation failed">>]]_vars

\* C18 witness: a process that had written its file and text to standard
\* output, none to standard error, was ended by a signal, and its request
\* has the generic message.
C18_Witness ==
  /\ gens[1].st = "done" /\ gens[1].code = -1
  /\ gens[1].wrote /\ gens[1].stdout # <<>>
  /\ gens[1].resp.body.value = [success |-> FALSE, error |-> <<"generation failed">>]

\* C19: every response written for a POST /api/generate is JSON whose value
\* has a boolean success; with success false it has error and nothing else,
\* whether the body was not JSON, the topic missing, the exit code not 0 or
\* no file found; with success true it has url and filename and nothing
\* else, url being /output/ followed by filename, and the output directory
\* holds a file of that name.
C19_GenerationResultShape ==
  \A c \in Connections :
    gens[c].answers > 0 =>
      LET v == gens[c].resp.body.value
      IN  /\ gens[c].method = "POST" /\ Pathname(gens[c].url) = GeneratePath
          /\ gens[c].resp.ctype = "application/json"
          /\ gens[c].resp.body.kind = "json"
          /\ "success" \in DOMAIN v
          /\ v.success \in BOOLEAN
          /\ ~v.success => DOMAIN v = {"success", "error"}
          /\ v.success =>
                /\ DOMAIN v = {"success", "url", "filename"}
                /\ v.url = <<Seg("output"), v.filename>>
                /\ v.filename \in DOMAIN outputDir

\* C19 witness: one request was answered for a body that is not JSON, the
\* other after its process closed with code 0 and no file was found.
C19_Witness ==
  \E c, d \in Connections :
    /\ gens[c].st = "done" /\ gens[c].body.kind = "malformed"
    /\ gens[c].resp.body.value = Failure(JsonParseError)
    /\ gens[d].st = "done" /\ gens[d].spawned = 1 /\ gens[d].code = 0
    /\ gens[d].resp.body.value = Failure(<<"no output file found">>)

\* A step in which the external process of a connection writes its file.
WritesOutput(c) ==
  /\ gens[c].st = "running" /\ ~gens[c].wrote
  /\ gens'[c] = [gens[c] EXCEPT !.wrote = TRUE]
  /\ DOMAIN outputDir' = DOMAIN outputDir \cup {PresentationName(gens[c].outId)}
  /\ outputDir'[PresentationName(gens[c].outId)] = c

\* A step of the dispatcher: a request answered at once, a generation
\* request accepted, its body ended, or its process's close handled.
DispatcherStep ==
  \/ last' # last
  \/ \E c \in Connections : gens'[c].st # gens[c].st

PreviewBase == IF ExistsSync(PreviewBuildDir) THEN PreviewBuildDir ELSE PreviewPublicDir

\* C21: a request to the preview server whose URL starts with neither /api/
\* nor /output/ has every path it reads inside the build directory, or the
\* public directory when there is no build directory, and no request to the
\* preview server reads a regular file outside those and the output
\* directory.
C21_PreviewStaticStaysInside ==
  last.server = "preview" =>
    /\ (~UrlStartsWith(last.url, "api") /\ ~UrlStartsWith(last.url, "output")) =>
          \A p \in last.read : IsPrefix(PreviewBase, p)
    /\ \A p \in last.read :
          IsFile(p) => IsPrefix(PreviewBase, p) \/ IsPrefix(PREVIEW_OUTPUT_DIR, p)

\* C22: in the form wizard the step is always 1, 2 or 3; on steps 2 and 3 the
\* topic is not blank after trimming; every generation request the wizard
\* has sent, and every one the server has received, carries a topic that is
\* not blank; a fetch is started only from step 3; and a step that clears a
\* result leaves step 1, the initial form data and no result.
C22_WizardStepsGuarded ==
  /\ [](/\ app.step \in {1, 2, 3}
        /\ app.step \in {2, 3} => Trim(app.formData.topic) # <<>>
        /\ app.fetches > 0 => ~BlankTopic(app.request.topic)
        /\ \A c \in Connections : gens[c].st # "idle" => ~BlankTopic(gens[c].body.topic))
  /\ [][/\ app'.fetches # app.fetches => app.step = 3
        /\ (app.result # Null /\ app'.result = Null) =>
              /\ app'.step = 1
              /\ app'.formData = InitialFormData
              /\ app'.result = InitialApp.result]_vars

\* A generation was requested from step 3 with an edited form and answered,
\* and the form was reset after it.
C22_Witness ==
  /\ app.fetches >= 1
  /\ gens[1].st = "done"
  /\ gens[1].body.opts.industry = Str(<<"finance">>)
  /\ app.result = Null
  /\ ~app.isGenerating
  /\ app.step = 1
  /\ app.formData = InitialFormData

\* C23: once the wizard has the combined server's answer to its fetch,
\* isGenerating is false; when the answer is a successful result the
\* wizard's result is successful with the answer's url and filename, and the
\* frame, the open button and the download link of the result view carry
\* them; when the answer is a failure the wizard's result is unsuccessful
\* with the answer's error text as its message.
C23_ResultMirrorsServer ==
  (app.result # Null /\ app.fetches \in Connections /\ gens[app.fetches].st = "done") =>
    LET data == gens[app.fetches].resp.body.value
        view == ResultView(app.result)
    IN  /\ ~app.isGenerating
        /\ data.success =>
              /\ app.result.success
              /\ app.result.url = [t |-> "value", v |-> data.url]
              /\ app.result.filename = [t |-> "value", v |-> data.filename]
              /\ view.frame = app.result.url
              /\ view.open = app.result.url
              /\ view.href = app.result.url
              /\ view.download = app.result.filename
        /\ ~data.success =>
              /\ ~app.result.success
              /\ app.result.message = data.error
====
